---- MODULE Spec2Model ----
(***************************************************************************)
(* privy-share: the login / lockout subsystem.                             *)
(*                                                                         *)
(* The lockout record is one table entity ("auth"/"global") that request   *)
(* handlers read and overwrite through awaited storage calls.  Every       *)
(* awaited storage call is a suspension point: the storage operation       *)
(* itself is one atomic step on the table, and the handler's continuation  *)
(* (which may read Date.now()) is a later step.  Requests of different     *)
(* clients interleave at these points.  The wall clock advances between    *)
(* any two steps.                                                          *)
(*                                                                         *)
(* The informational field updatedAt of the entity is never read by the    *)
(* program and is left out.                                                *)
(***************************************************************************)
EXTENDS Integers, Sequences, FiniteSets, TLC

\* ------------------------------------------------------------------ bounds

\* The largest AUTH_MAX_ATTEMPTS / AUTH_LOCK_MINUTES the environment supplies.
MaxAttemptsBound == 3
MaxLockMinutes == 1
\* The instants (ms) at which the clock is read.  A lock of one minute entered
\* at 1000 is observed well before its deadline (31000), half a second before
\* it (60500), exactly at it (61000) and after it; a lock entered at 61000
\* ends exactly at 121000.
Instants == {1000, 31000, 60500, 61000, 121000}

\* The requests that can be in flight at once; each is a login
\* (POST /api/auth/login) or a status query (GET /api/auth/state).
Procs == {"R1", "R2"}

VARIABLES
    now,                    \* Date.now()
    env,                    \* the cached AppEnv (authMaxAttempts, authLockMinutes)
    store,                  \* the auth table: the singleton entity, if it exists
    initializationPromise,  \* azure.ts: null | pending | fulfilled | rejected
    req,                    \* each request's position, locals and response
    history,                \* what the last completed requests were (observation only)
    derived,                \* the last status derived from a record: input and result
    totp,                   \* the last code submitted to verifyTotpCode, and the result
    jar,                    \* the session token the client was issued last, and
                            \* whether its browser still holds the cookie
    itemReq,                \* the item-route request in flight
    vault,                  \* the items table: the ids it holds
    processEnv,             \* process.env: the raw values of the variables getEnv reads
    envCall,                \* the getEnv call that has just returned or thrown
    blobs,                  \* the blob container: the blob names it holds
    del                     \* each deleteItemById call's position and locals

lockoutVars == <<store, initializationPromise, req, history>>
pureVars == <<derived, totp>>
sessionVars == <<jar, itemReq, vault>>
envVars == <<processEnv, envCall>>
deleteVars == <<blobs, del>>

vars == <<now, env, lockoutVars, pureVars, sessionVars, envVars, deleteVars>>

\* ------------------------------------------------------------- data

NoEntity == [failedAttempts |-> -1, lockUntilEpochMs |-> -1]
NoStatus == [isLocked |-> FALSE, failedAttempts |-> -1, maxAttempts |-> -1,
             lockUntilEpochMs |-> -1, retryAfterSeconds |-> -1]
NoCode == [sixDigits |-> FALSE, matches |-> FALSE, none |-> TRUE]
NoResp == [status |-> 0, lockout |-> NoStatus, session |-> FALSE]

\* A submitted code, by what verifyTotpCode looks at: whether it is six digits
\* once whitespace is removed, and whether otplib accepts it.
Codes == { [sixDigits |-> FALSE, matches |-> FALSE, none |-> FALSE],
           [sixDigits |-> TRUE,  matches |-> FALSE, none |-> FALSE],
           [sixDigits |-> TRUE,  matches |-> TRUE,  none |-> FALSE] }

\* A login request body: not JSON, no string code, a code that is empty once
\* trimmed, or a code.
Bodies == { [json |-> FALSE, hasCode |-> FALSE, blank |-> FALSE, code |-> NoCode],
            [json |-> TRUE,  hasCode |-> FALSE, blank |-> FALSE, code |-> NoCode],
            [json |-> TRUE,  hasCode |-> TRUE,  blank |-> TRUE,  code |-> NoCode] }
          \cup { [json |-> TRUE, hasCode |-> TRUE, blank |-> FALSE, code |-> c] : c \in Codes }

Max(a, b) == IF a >= b THEN a ELSE b

\* Math.ceil(x / 1000) for an integer x of either sign.
CeilSeconds(x) == -((-x) \div 1000)

\* ------------------------------------------------------------- lockout.ts

\* The count the table holds (0 while it holds no entity).
RecordCount == IF store.exists THEN store.entity.failedAttempts ELSE 0

\* What authTableClient.getEntity throws: the table has no such entity (404,
\* ResourceNotFound), or the call failed otherwise.
ErrNotFound == [statusCode |-> 404, code |-> "ResourceNotFound"]
ErrOther == [statusCode |-> 500, code |-> "InternalError"]

\* isNotFoundError taking every error for not-found.
isNotFoundError_any(error) == TRUE

isNotFoundError(error) ==
    error.statusCode = 404 \/ error.code = "ResourceNotFound"

\* defaultEntity starting with a failure counted.
defaultEntity_one == [failedAttempts |-> 1, lockUntilEpochMs |-> 0]

defaultEntity == [failedAttempts |-> 0, lockUntilEpochMs |-> 0]

normalizeEntity(entity) ==
    [failedAttempts |-> entity.failedAttempts,
     lockUntilEpochMs |-> entity.lockUntilEpochMs]

\* toStatus rounding the remaining time down instead of up.
toStatus_floor(entity, t) ==
    LET retryAfterSeconds == Max(0, (entity.lockUntilEpochMs - t) \div 1000)
    IN  [isLocked |-> retryAfterSeconds > 0,
         failedAttempts |-> entity.failedAttempts,
         maxAttempts |-> env.authMaxAttempts,
         lockUntilEpochMs |-> entity.lockUntilEpochMs,
         retryAfterSeconds |-> retryAfterSeconds]

\* toStatus still locked at the deadline itself (one millisecond late).
toStatus_inclusive(entity, t) ==
    LET retryAfterSeconds == Max(0, CeilSeconds(entity.lockUntilEpochMs - t + 1))
    IN  [isLocked |-> retryAfterSeconds > 0,
         failedAttempts |-> entity.failedAttempts,
         maxAttempts |-> env.authMaxAttempts,
         lockUntilEpochMs |-> entity.lockUntilEpochMs,
         retryAfterSeconds |-> retryAfterSeconds]

\* toStatus, with the value t its Date.now() returns.
toStatus(entity, t) ==
    LET retryAfterSeconds == Max(0, CeilSeconds(entity.lockUntilEpochMs - t))
    IN  [isLocked |-> retryAfterSeconds > 0,
         failedAttempts |-> entity.failedAttempts,
         maxAttempts |-> env.authMaxAttempts,
         lockUntilEpochMs |-> entity.lockUntilEpochMs,
         retryAfterSeconds |-> retryAfterSeconds]

\* recordFailedAttempt without the second look at the lock.
stillLocked_never(entity, t) == FALSE

\* recordFailedAttempt's early return: the entity it read is still locked at t.
stillLocked(entity, t) == entity.lockUntilEpochMs > t

\* failedEntity locking one failure late (> for >=).
failedEntity_offByOne(entity, t) ==
    LET failedAttempts == entity.failedAttempts + 1
    IN  IF failedAttempts > env.authMaxAttempts
        THEN [failedAttempts |-> 0,
              lockUntilEpochMs |-> t + env.authLockMinutes * 60 * 1000]
        ELSE [failedAttempts |-> failedAttempts, lockUntilEpochMs |-> 0]

\* failedEntity keeping the count in the record that enters the lock.
failedEntity_keepsCount(entity, t) ==
    LET failedAttempts == entity.failedAttempts + 1
    IN  IF failedAttempts >= env.authMaxAttempts
        THEN [failedAttempts |-> failedAttempts,
              lockUntilEpochMs |-> t + env.authLockMinutes * 60 * 1000]
        ELSE [failedAttempts |-> failedAttempts, lockUntilEpochMs |-> 0]

\* failedEntity counting from what the table holds now instead of from the
\* entity read before.
failedEntity_fromStore(entity, t) ==
    LET failedAttempts == RecordCount + 1
    IN  IF failedAttempts >= env.authMaxAttempts
        THEN [failedAttempts |-> 0,
              lockUntilEpochMs |-> t + env.authLockMinutes * 60 * 1000]
        ELSE [failedAttempts |-> failedAttempts, lockUntilEpochMs |-> 0]

\* failedEntity taking the lock minutes for seconds.
failedEntity_seconds(entity, t) ==
    LET failedAttempts == entity.failedAttempts + 1
    IN  IF failedAttempts >= env.authMaxAttempts
        THEN [failedAttempts |-> 0,
              lockUntilEpochMs |-> t + env.authLockMinutes * 1000]
        ELSE [failedAttempts |-> failedAttempts, lockUntilEpochMs |-> 0]

\* failedEntity forgetting to add the lock duration.
failedEntity_noDuration(entity, t) ==
    LET failedAttempts == entity.failedAttempts + 1
    IN  IF failedAttempts >= env.authMaxAttempts
        THEN [failedAttempts |-> 0, lockUntilEpochMs |-> t]
        ELSE [failedAttempts |-> failedAttempts, lockUntilEpochMs |-> 0]

\* recordFailedAttempt's nextEntity, from the entity it read and its now.
failedEntity(entity, t) ==
    LET failedAttempts == entity.failedAttempts + 1
    IN  IF failedAttempts >= env.authMaxAttempts
        THEN [failedAttempts |-> 0,
              lockUntilEpochMs |-> t + env.authLockMinutes * 60 * 1000]
        ELSE [failedAttempts |-> failedAttempts, lockUntilEpochMs |-> 0]

\* resetFailedAttempts leaving a failure counted.
resetEntity_keepsCount == [failedAttempts |-> 1, lockUntilEpochMs |-> 0]

\* resetFailedAttempts' nextEntity.
resetEntity == [failedAttempts |-> 0, lockUntilEpochMs |-> 0]

\* ------------------------------------------------------------- totp.ts

\* verifyTotpCode letting a malformed code through.
verifyTotpCode_malformed(code) ==
    IF ~code.sixDigits THEN TRUE ELSE code.matches

verifyTotpCode(code) ==
    IF ~code.sixDigits THEN FALSE ELSE code.matches

\* ------------------------------------------------------------- login route

\* bodySchema without the trim: a code of blanks passes.
bodySchemaAccepts_blank(body) == body.json /\ body.hasCode

\* bodySchema.parse(await request.json()) succeeds.
bodySchemaAccepts(body) == body.json /\ body.hasCode /\ ~body.blank

\* ------------------------------------------------------------- requests

\* A request: its position (pc), the submitted code and the handler's locals
\* (entity: what getEntity returned; now, next: recordFailedAttempt's now and
\* nextEntity, or resetFailedAttempts' nextEntity).  The other fields observe
\* the run: checkLocked / checkExpired (the lock check read an active / an
\* expired lock), verified (verifyTotpCode was called), writes (upserts that
\* reached the table), alone (no other request overlapped it; for a status
\* query: no login did), after (a status query started right after a
\* successful login).  At pc = "done" resp is the response sent; the record
\* of a request that has answered is dropped in the next step (Close).
IdleReq ==
    [pc |-> "idle", kind |-> "none", code |-> NoCode, entity |-> NoEntity, now |-> -1,
     next |-> NoEntity, checkLocked |-> FALSE, checkExpired |-> FALSE,
     verified |-> FALSE, writes |-> 0, alone |-> FALSE, after |-> FALSE,
     resp |-> NoResp]

InFlight(p) == req[p].pc # "idle"
IsLogin(p) == req[p].kind = "login"
IsQuery(p) == req[p].kind = "query"

\* No response is being delivered.
Quiescent == \A p \in Procs : req[p].pc # "done"

\* UNLOCKED(0): no failures counted, no lock.
ZeroRecord == [failedAttempts |-> 0, lockUntilEpochMs |-> 0]

\* The lockout state the table stands for: no entity yet is UNLOCKED(0).
RecordValue(s) == IF s.exists THEN s.entity ELSE ZeroRecord

\* A request of the given kind starts: requests in flight no longer run
\* alone.  (A status query's flag records only overlapping logins.)
Overlapped(kind) ==
    [o \in Procs |->
        IF InFlight(o) /\ (kind = "login" \/ IsLogin(o))
        THEN [req[o] EXCEPT !.alone = FALSE]
        ELSE req[o]]

\* streak: how many login attempts with an invalid code have completed one
\* after another, each alone, since the record was (0, 0), or -1; success: the
\* request completed last was a login that succeeded, run alone.
NoHistory == [streak |-> -1, success |-> FALSE]

\* A request step that does not end the request.
Step(p, r) ==
    /\ req' = [req EXCEPT ![p] = r]
    /\ UNCHANGED history

\* A request step that ends the request with response resp.
Complete(p, r, resp) ==
    LET done == [r EXCEPT !.pc = "done", !.resp = resp]
        recorded == /\ IsLogin(p)
                    /\ done.alone
                    /\ r.pc \in {"rfa_locked", "rfa_status"}
                    /\ history.streak >= 0
                    /\ history.streak < env.authMaxAttempts
        succeeded == IsLogin(p) /\ done.alone /\ resp.status = 200
    IN  /\ req' = [req EXCEPT ![p] = done]
        /\ history' =
             IF IsQuery(p)
             THEN history
             ELSE [streak |-> IF recorded THEN history.streak + 1 ELSE -1,
                   success |-> succeeded]

\* An exception escapes the handler: the framework answers 500.
Throw(p) == Complete(p, req[p], [NoResp EXCEPT !.status = 500])

\* ------------------------------------------------------------- the clock

Tick ==
    /\ Quiescent
    /\ \E t \in Instants :
          /\ t > now
          /\ now' = t
    /\ UNCHANGED <<env, store, initializationPromise, req, history>>
    /\ UNCHANGED <<pureVars, sessionVars, envVars, deleteVars>>

\* ------------------------------------------------------------- azure.ts

\* The positions at which a request awaits initializeStorage() before its
\* storage call (getEntity and saveEntity both start with it).
StoragePoints == {"check_get", "rfa_get", "q_get", "rfa_save", "reset_save"}

\* initializeStorage, first caller: the promise is created and the container
\* and table creation calls are issued.
initializeStorage_start(p) ==
    /\ Quiescent
    /\ req[p].pc \in StoragePoints
    /\ initializationPromise = "null"
    /\ initializationPromise' = "pending"
    /\ UNCHANGED <<now, env, store, req, history>>
    /\ UNCHANGED <<pureVars, sessionVars, envVars, deleteVars>>

\* initializeStorage forgetting a failed attempt, so that the next caller
\* tries again.
initializeStorage_settle_retry ==
    /\ Quiescent
    /\ initializationPromise = "pending"
    /\ \/ initializationPromise' = "fulfilled"
       \/ initializationPromise' = "null"
    /\ UNCHANGED <<now, env, store, req, history>>
    /\ UNCHANGED <<pureVars, sessionVars, envVars, deleteVars>>

\* The creation calls complete: all succeeded (a 409 counts), or one failed.
initializeStorage_settle ==
    /\ Quiescent
    /\ initializationPromise = "pending"
    /\ \/ initializationPromise' = "fulfilled"
       \/ initializationPromise' = "rejected"
    /\ UNCHANGED <<now, env, store, req, history>>
    /\ UNCHANGED <<pureVars, sessionVars, envVars, deleteVars>>

\* await initializationPromise throws in a caller.
initializeStorage_rejected(p) ==
    /\ Quiescent
    /\ req[p].pc \in StoragePoints
    /\ initializationPromise = "rejected"
    /\ Throw(p)
    /\ UNCHANGED <<now, env, store, initializationPromise>>
    /\ UNCHANGED <<pureVars, sessionVars, envVars, deleteVars>>

\* ------------------------------------------------------------- getEntity / saveEntity

CreatePc(pc) ==
    CASE pc = "check_get" -> "check_create"
      [] pc = "rfa_get"   -> "rfa_create"
      [] pc = "q_get"     -> "q_create"

AfterGet(pc) ==
    CASE pc \in {"check_get", "check_create"} -> "check_status"
      [] pc \in {"rfa_get", "rfa_create"}     -> "rfa_decide"
      [] pc \in {"q_get", "q_create"}         -> "q_status"

AfterSave(pc) ==
    CASE pc = "rfa_save"   -> "rfa_status"
      [] pc = "reset_save" -> "session"

\* getEntity: authTableClient.getEntity answers with the entity, with
\* not-found, or with another error (rethrown).
getEntity_read(p) ==
    /\ Quiescent
    /\ req[p].pc \in {"check_get", "rfa_get", "q_get"}
    /\ initializationPromise = "fulfilled"
    /\ \/ /\ store.exists
          /\ Step(p, [req[p] EXCEPT !.entity = normalizeEntity(store.entity),
                                    !.pc = AfterGet(req[p].pc)])
       \/ \E error \in {ErrNotFound, ErrOther} :
             /\ error = ErrNotFound => ~store.exists
             /\ IF isNotFoundError(error)
                THEN Step(p, [req[p] EXCEPT !.pc = CreatePc(req[p].pc)])
                ELSE Throw(p)
    /\ UNCHANGED <<now, env, store, initializationPromise>>
    /\ UNCHANGED <<pureVars, sessionVars, envVars, deleteVars>>

\* getEntity, not found: upsertEntity(defaultEntity(), "Replace"), which
\* overwrites whatever the table holds by then, or fails.
getEntity_create(p) ==
    /\ Quiescent
    /\ req[p].pc \in {"check_create", "rfa_create", "q_create"}
    /\ \/ /\ store' = [exists |-> TRUE, entity |-> defaultEntity]
          /\ Step(p, [req[p] EXCEPT !.entity = defaultEntity,
                                    !.writes = @ + 1,
                                    !.pc = AfterGet(req[p].pc)])
       \/ /\ Throw(p)
          /\ UNCHANGED store
    /\ UNCHANGED <<now, env, initializationPromise>>
    /\ UNCHANGED <<pureVars, sessionVars, envVars, deleteVars>>

\* saveEntity swallowing a failed upsert.
saveEntity_swallow(p) ==
    /\ Quiescent
    /\ req[p].pc \in {"rfa_save", "reset_save"}
    /\ initializationPromise = "fulfilled"
    /\ \/ /\ store' = [exists |-> TRUE, entity |-> req[p].next]
          /\ Step(p, [req[p] EXCEPT !.writes = @ + 1,
                                    !.pc = AfterSave(req[p].pc)])
       \/ /\ Step(p, [req[p] EXCEPT !.pc = AfterSave(req[p].pc)])
          /\ UNCHANGED store
    /\ UNCHANGED <<now, env, initializationPromise>>
    /\ UNCHANGED <<pureVars, sessionVars, envVars, deleteVars>>

\* saveEntity: upsertEntity(entity, "Replace") with no concurrency token.
saveEntity(p) ==
    /\ Quiescent
    /\ req[p].pc \in {"rfa_save", "reset_save"}
    /\ initializationPromise = "fulfilled"
    /\ \/ /\ store' = [exists |-> TRUE, entity |-> req[p].next]
          /\ Step(p, [req[p] EXCEPT !.writes = @ + 1,
                                    !.pc = AfterSave(req[p].pc)])
       \/ /\ Throw(p)
          /\ UNCHANGED store
    /\ UNCHANGED <<now, env, initializationPromise>>
    /\ UNCHANGED <<pureVars, sessionVars, envVars, deleteVars>>

\* ------------------------------------------------------------- POST /api/auth/login

\* The request arrives and its body is parsed: 400, or on to getLockoutStatus.
POST_parse(p, body) ==
    /\ Quiescent
    /\ ~InFlight(p)
    /\ LET alone == \A o \in Procs \ {p} : ~InFlight(o)
       IN  IF ~bodySchemaAccepts(body)
           THEN /\ req' = [req EXCEPT ![p] =
                             [IdleReq EXCEPT !.pc = "done", !.kind = "login",
                                             !.resp.status = 400]]
                /\ history' = NoHistory
           ELSE /\ req' = [Overlapped("login") EXCEPT ![p] =
                             [IdleReq EXCEPT !.pc = "check_get",
                                             !.kind = "login",
                                             !.code = body.code,
                                             !.alone = alone]]
                /\ history' =
                     IF alone
                     THEN [streak |-> IF RecordValue(store) = ZeroRecord
                                      THEN 0
                                      ELSE IF history.streak < env.authMaxAttempts
                                      THEN history.streak ELSE -1,
                           success |-> FALSE]
                     ELSE NoHistory
    /\ UNCHANGED <<now, env, store, initializationPromise>>
    /\ UNCHANGED <<pureVars, sessionVars, envVars, deleteVars>>

\* After await getLockoutStatus(): the lock check, then verifyTotpCode.
POST_lockCheck(p) ==
    /\ Quiescent
    /\ req[p].pc = "check_status"
    /\ LET currentLockout == toStatus(req[p].entity, now)
           r == [req[p] EXCEPT
                   !.checkLocked = req[p].entity.lockUntilEpochMs > now,
                   !.checkExpired = /\ req[p].entity.lockUntilEpochMs > 0
                                    /\ req[p].entity.lockUntilEpochMs <= now]
       IN  IF currentLockout.isLocked
           THEN Complete(p, r, [status |-> 423, lockout |-> currentLockout,
                                session |-> FALSE])
           ELSE IF verifyTotpCode(r.code)
           THEN Step(p, [r EXCEPT !.verified = TRUE, !.next = resetEntity,
                                  !.pc = "reset_save"])
           ELSE Step(p, [r EXCEPT !.verified = TRUE,
                                  !.entity = NoEntity, !.pc = "rfa_get"])
    /\ UNCHANGED <<now, env, store, initializationPromise>>
    /\ UNCHANGED <<pureVars, sessionVars, envVars, deleteVars>>

\* recordFailedAttempt after its getEntity: now = Date.now(), the early return
\* when the entity is locked, else nextEntity.
recordFailedAttempt_decide(p) ==
    /\ Quiescent
    /\ req[p].pc = "rfa_decide"
    /\ IF stillLocked(req[p].entity, now)
       THEN Step(p, [req[p] EXCEPT !.now = now, !.pc = "rfa_locked"])
       ELSE Step(p, [req[p] EXCEPT !.now = now,
                                   !.next = failedEntity(req[p].entity, now),
                                   !.pc = "rfa_save"])
    /\ UNCHANGED <<now, env, store, initializationPromise>>
    /\ UNCHANGED <<pureVars, sessionVars, envVars, deleteVars>>

\* The response of a failed attempt, from the status recordFailedAttempt returns.
failedResponse(lockout) ==
    [status |-> IF lockout.isLocked THEN 423 ELSE 401,
     lockout |-> lockout, session |-> FALSE]

\* recordFailedAttempt's early return: toStatus(entity), a second Date.now().
recordFailedAttempt_locked(p) ==
    /\ Quiescent
    /\ req[p].pc = "rfa_locked"
    /\ Complete(p, req[p], failedResponse(toStatus(req[p].entity, now)))
    /\ UNCHANGED <<now, env, store, initializationPromise>>
    /\ UNCHANGED <<pureVars, sessionVars, envVars, deleteVars>>

\* recordFailedAttempt after its saveEntity: toStatus(nextEntity).
recordFailedAttempt_status(p) ==
    /\ Quiescent
    /\ req[p].pc = "rfa_status"
    /\ Complete(p, req[p], failedResponse(toStatus(req[p].next, now)))
    /\ UNCHANGED <<now, env, store, initializationPromise>>
    /\ UNCHANGED <<pureVars, sessionVars, envVars, deleteVars>>

\* After await resetFailedAttempts(): the success response with the session cookie.
setSessionCookie(p) ==
    /\ Quiescent
    /\ req[p].pc = "session"
    /\ Complete(p, req[p], [status |-> 200, lockout |-> NoStatus, session |-> TRUE])
    /\ UNCHANGED <<now, env, store, initializationPromise>>
    /\ UNCHANGED <<pureVars, sessionVars, envVars, deleteVars>>

\* ------------------------------------------------------------- GET /api/auth/state

GET_start(q) ==
    /\ Quiescent
    /\ ~InFlight(q)
    /\ LET quiet == \A l \in Procs : ~IsLogin(l)
       IN  req' = [Overlapped("query") EXCEPT ![q] =
                     [IdleReq EXCEPT !.pc = "q_get",
                                     !.kind = "query",
                                     !.alone = quiet,
                                     !.after = quiet /\ history.success]]
    /\ history' = [history EXCEPT !.streak = -1]
    /\ UNCHANGED <<now, env, store, initializationPromise>>
    /\ UNCHANGED <<pureVars, sessionVars, envVars, deleteVars>>

\* After await getLockoutStatus(): the status is computed and returned.
GET_respond(q) ==
    /\ Quiescent
    /\ req[q].pc = "q_status"
    /\ Complete(q, req[q], [status |-> 200, lockout |-> toStatus(req[q].entity, now),
                            session |-> FALSE])
    /\ UNCHANGED <<now, env, store, initializationPromise>>
    /\ UNCHANGED <<pureVars, sessionVars, envVars, deleteVars>>

\* The response has been sent: the request is over.
Close(p) ==
    /\ req[p].pc = "done"
    /\ req' = [req EXCEPT ![p] = IdleReq]
    /\ UNCHANGED <<now, env, store, initializationPromise, history>>
    /\ UNCHANGED <<pureVars, sessionVars, envVars, deleteVars>>

\* ------------------------------------------------------------- specification

\* Nothing has happened yet in the lockout subsystem.
LockoutIdle ==
    /\ store = [exists |-> FALSE, entity |-> NoEntity]
    /\ initializationPromise = "null"
    /\ req = [p \in Procs |-> IdleReq]
    /\ history = NoHistory

NoDerived == [entity |-> NoEntity, now |-> -1, status |-> NoStatus]
NoTotp == [step |-> -1, sixDigits |-> FALSE, epoch |-> -1, valid |-> FALSE]
NoToken == [alg |-> "none", key |-> "none", iat |-> -1, exp |-> -1,
            authenticated |-> FALSE, wellFormed |-> FALSE]
IdleItemReq == [pc |-> "idle", route |-> "none", cookie |-> NoToken,
                hasCookie |-> FALSE, at |-> -1, authenticated |-> FALSE,
                ops |-> 0, status |-> 0]

\* No status has been derived and no code submitted.
PureIdle ==
    /\ derived = NoDerived
    /\ totp = NoTotp

\* process.env as the specifications that start from a loaded configuration
\* see it: not looked at.
NoProcessEnv == [name \in {"none"} |-> "none"]

NoEnvCall == [pc |-> "idle", threw |-> FALSE]

\* getEnv is not being called.
EnvIdle ==
    /\ processEnv = NoProcessEnv
    /\ envCall = NoEnvCall

IdleDelete == [pc |-> "idle", id |-> "none", blobName |-> "none", calls |-> 0,
               threw |-> FALSE, status |-> 0]

\* No delete is in progress and the blob container is empty.
DeleteIdle ==
    /\ blobs = {}
    /\ del = [p \in Procs |-> IdleDelete]

\* No token has been issued and no item request made.
SessionIdle ==
    /\ jar = {}
    /\ itemReq = IdleItemReq
    /\ vault = {}

Init ==
    /\ now = 1000
    /\ env \in [authMaxAttempts : 1..MaxAttemptsBound,
                authLockMinutes : 1..MaxLockMinutes,
                sessionSecret : {"secret1"},
                sessionTtlHours : {1}]
    /\ LockoutIdle
    /\ PureIdle
    /\ SessionIdle
    /\ EnvIdle
    /\ DeleteIdle

\* A response is delivered at once: while a request is at "done" the only step
\* is its Close (every other action requires Quiescent).
Next ==
    \/ Tick
    \/ initializeStorage_settle
    \/ \E p \in Procs :
          \/ Close(p)
          \/ initializeStorage_start(p)
          \/ initializeStorage_rejected(p)
          \/ getEntity_read(p)
          \/ getEntity_create(p)
          \/ saveEntity(p)
          \/ \E body \in Bodies : POST_parse(p, body)
          \/ POST_lockCheck(p)
          \/ recordFailedAttempt_decide(p)
          \/ recordFailedAttempt_locked(p)
          \/ recordFailedAttempt_status(p)
          \/ setSessionCookie(p)
          \/ GET_start(p)
          \/ GET_respond(p)

Spec == Init /\ [][Next]_vars

\* ------------------------------------------------------------- properties

\* The configured lock duration in milliseconds.
LockMs == env.authLockMinutes * 60 * 1000

Stored(entity) == store = [exists |-> TRUE, entity |-> entity]

\* p is a login that ran alone, had its code refused by verifyTotpCode, saved
\* the failure and has answered.
FailedDone(p) ==
    /\ IsLogin(p) /\ req[p].alone /\ req[p].pc = "done"
    /\ req[p].verified /\ req[p].next # NoEntity
    /\ req[p].resp.status \in {401, 423}

\* p is a login whose code verifyTotpCode accepted.
Accepted(p) == IsLogin(p) /\ req[p].verified /\ verifyTotpCode(req[p].code)

C2_LockedRejection ==
    \A p \in Procs :
        (IsLogin(p) /\ req[p].checkLocked) =>
            /\ req[p].pc = "done"
            /\ req[p].resp.status = 423
            /\ req[p].resp.lockout.isLocked
            /\ req[p].resp.lockout.retryAfterSeconds > 0
            /\ req[p].resp.lockout.lockUntilEpochMs = req[p].entity.lockUntilEpochMs
            /\ req[p].resp.lockout.failedAttempts = req[p].entity.failedAttempts
            /\ ~req[p].verified
            /\ req[p].writes = 0

C2_Witness ==
    \E p \in Procs :
        /\ IsLogin(p) /\ req[p].checkLocked /\ req[p].pc = "done"
        /\ req[p].resp.status = 423
        /\ store.entity.lockUntilEpochMs = req[p].entity.lockUntilEpochMs

\* C3 as claimed. An invalid code run alone from UNLOCKED(n): below the ceiling
\* the record becomes (n+1, 0) and the answer is 401 with the new count; at
\* the ceiling the record becomes (0, now + lock duration) and the answer is
\* 423 with isLocked.
C3_AsClaimed ==
    \A p \in Procs :
        FailedDone(p) =>
            LET n == req[p].entity.failedAttempts
            IN  IF n + 1 < env.authMaxAttempts
                THEN /\ Stored([failedAttempts |-> n + 1, lockUntilEpochMs |-> 0])
                     /\ req[p].resp.status = 401
                     /\ req[p].resp.lockout.failedAttempts = n + 1
                ELSE /\ Stored([failedAttempts |-> 0,
                                lockUntilEpochMs |-> req[p].now + LockMs])
                     /\ req[p].resp.status = 423
                     /\ req[p].resp.lockout.isLocked

\* C3, amended. As claimed for the stored record; at the ceiling the answer
\* reports the new record at the time the status is computed, after the save:
\* 423 with isLocked while the clock is before lockUntil, and 401 with
\* isLocked = false and failedAttempts = 0 once the save has taken the whole
\* lock duration.
C3_FailedAttemptTransition ==
    \A p \in Procs :
        FailedDone(p) =>
            LET n == req[p].entity.failedAttempts
                until == req[p].now + LockMs
            IN  IF n + 1 < env.authMaxAttempts
                THEN /\ Stored([failedAttempts |-> n + 1, lockUntilEpochMs |-> 0])
                     /\ req[p].resp.status = 401
                     /\ ~req[p].resp.lockout.isLocked
                     /\ req[p].resp.lockout.failedAttempts = n + 1
                ELSE /\ Stored([failedAttempts |-> 0, lockUntilEpochMs |-> until])
                     /\ req[p].resp.lockout.lockUntilEpochMs = until
                     /\ req[p].resp.lockout.failedAttempts = 0
                     /\ IF now < until
                        THEN req[p].resp.status = 423 /\ req[p].resp.lockout.isLocked
                        ELSE req[p].resp.status = 401 /\ ~req[p].resp.lockout.isLocked

C3_Witness ==
    \E p \in Procs :
        /\ FailedDone(p)
        /\ req[p].entity.failedAttempts = 2
        /\ env.authMaxAttempts = 3
        /\ req[p].resp.status = 423

\* C4. Success resets: a login with a valid code run alone that passes the lock
\* check writes (0, 0) (also over a record that is (0, 0) already) before the
\* session is issued; it answers 200 with a session unless a storage call
\* failed; and a status query that follows it reports isLocked = false and
\* failedAttempts = 0.
C4_SuccessResets ==
    \A p \in Procs :
        /\ (Accepted(p) /\ req[p].alone /\ req[p].pc = "session")
           => Stored(ZeroRecord) /\ req[p].writes >= 1
        /\ (Accepted(p) /\ req[p].alone /\ req[p].pc = "done")
           => \/ req[p].resp.status = 500 /\ ~req[p].resp.session
              \/ /\ req[p].resp.status = 200
                 /\ req[p].resp.session
                 /\ Stored(ZeroRecord)
                 /\ req[p].writes >= 1
        /\ (IsQuery(p) /\ req[p].alone /\ req[p].after
              /\ req[p].pc = "done" /\ req[p].resp.status = 200)
           => /\ ~req[p].resp.lockout.isLocked
              /\ req[p].resp.lockout.failedAttempts = 0

C4_Witness ==
    \E p \in Procs :
        /\ Accepted(p) /\ req[p].alone /\ req[p].pc = "done"
        /\ req[p].resp.status = 200 /\ req[p].resp.session
        /\ req[p].entity.failedAttempts = 2
        /\ Stored(ZeroRecord)

\* C5 as claimed. An invalid code run alone whose lock check read an expired
\* lock (0 < lockUntil <= now) is counted from 0 and leaves (1, 0), answered
\* 401 with failedAttempts = 1, for every maxAttempts.
C5_AsClaimed ==
    \A p \in Procs :
        (FailedDone(p) /\ req[p].checkExpired) =>
            /\ req[p].entity.failedAttempts = 0
            /\ Stored([failedAttempts |-> 1, lockUntilEpochMs |-> 0])
            /\ req[p].resp.status = 401
            /\ req[p].resp.lockout.failedAttempts = 1

\* C5, amended. The attempt is counted from 0 whatever preceded the lock; for
\* maxAttempts >= 2 it leaves (1, 0), answered 401 with failedAttempts = 1; for
\* maxAttempts = 1 that one failure reaches the ceiling and the record is
\* locked again: (0, now + lock duration).
C5_ExpiredLockInvalid ==
    \A p \in Procs :
        (FailedDone(p) /\ req[p].checkExpired) =>
            /\ req[p].entity.failedAttempts = 0
            /\ IF env.authMaxAttempts >= 2
               THEN /\ Stored([failedAttempts |-> 1, lockUntilEpochMs |-> 0])
                    /\ req[p].resp.status = 401
                    /\ ~req[p].resp.lockout.isLocked
                    /\ req[p].resp.lockout.failedAttempts = 1
               ELSE Stored([failedAttempts |-> 0,
                            lockUntilEpochMs |-> req[p].now + LockMs])

C5_Witness ==
    \E p \in Procs :
        /\ FailedDone(p) /\ req[p].checkExpired
        /\ env.authMaxAttempts = 3
        /\ req[p].resp.status = 401
        /\ Stored([failedAttempts |-> 1, lockUntilEpochMs |-> 0])

\* C6. A login whose lock check reads an expired lock (0 < lockUntil <= now) is
\* never turned away by it: verifyTotpCode is called; with a valid code the
\* request writes (0, 0) and answers 200 with a session (500 only when a
\* storage call failed), and run alone it leaves the table at (0, 0).
C6_ExpiredLockValid ==
    \A p \in Procs :
        (IsLogin(p) /\ req[p].checkExpired) =>
            /\ req[p].verified
            /\ (Accepted(p) /\ req[p].pc = "session")
               => /\ req[p].writes >= 1
                  /\ req[p].alone => Stored(ZeroRecord)
            /\ (Accepted(p) /\ req[p].pc = "done")
               => \/ req[p].resp.status = 500 /\ ~req[p].resp.session
                  \/ /\ req[p].resp.status = 200
                     /\ req[p].resp.session
                     /\ req[p].writes >= 1
                     /\ req[p].alone => Stored(ZeroRecord)

C6_Witness ==
    \E p \in Procs :
        /\ Accepted(p) /\ req[p].checkExpired /\ req[p].pc = "done"
        /\ req[p].resp.status = 200 /\ req[p].resp.session
        /\ req[p].entity.lockUntilEpochMs = now
        /\ Stored(ZeroRecord)

\* C7. Status query idempotence: a step of a status query that no login
\* overlaps never changes the lockout state the table stands for (a table
\* without the entity stands for (0, 0), which is what the query creates).
C7_StatusQueryIdempotent ==
    [][ \A q \in Procs :
          (IsQuery(q) /\ req[q].alone /\ req'[q] # req[q])
          => RecordValue(store') = RecordValue(store) ]_vars

C7_Witness ==
    \E q \in Procs :
        /\ IsQuery(q) /\ req[q].alone /\ req[q].pc = "done"
        /\ req[q].writes = 1
        /\ req[q].resp.status = 200

\* C8 as claimed. Under every interleaving with login attempts, no step of a
\* status query changes the failedAttempts or lockUntil the table holds.
C8_AsClaimed ==
    [][ \A q \in Procs :
          (IsQuery(q) /\ req'[q] # req[q] /\ store.exists)
          => store' = store ]_vars

\* C9. Lost update: two concurrent logins with invalid codes that both read
\* UNLOCKED(n), n + 2 < maxAttempts, and have both saved leave n + 1 in the
\* table, not n + 2.
C9_LostUpdate ==
    \A p, q \in Procs :
        (/\ p # q
         /\ IsLogin(p) /\ IsLogin(q)
         /\ req[p].pc = "rfa_status" /\ req[q].pc = "rfa_status"
         /\ req[p].entity = req[q].entity
         /\ req[p].entity.failedAttempts + 2 < env.authMaxAttempts)
        => Stored([failedAttempts |-> req[p].entity.failedAttempts + 1,
                   lockUntilEpochMs |-> 0])

C9_Witness ==
    \E p, q \in Procs :
        /\ p # q
        /\ IsLogin(p) /\ IsLogin(q)
        /\ req[p].pc = "rfa_status" /\ req[q].pc = "rfa_status"
        /\ req[p].entity = ZeroRecord /\ req[q].entity = ZeroRecord
        /\ env.authMaxAttempts = 3
        /\ Stored([failedAttempts |-> 1, lockUntilEpochMs |-> 0])

\* C10. Lazy creation: a read that found no entity returns (0, 0), has written
\* it, and the status derived from it is not locked; a request goes on to
\* create the entity only when the table reported not-found; a read that fails
\* otherwise ends the request with nothing written.
C10_LazyCreation ==
    \A p \in Procs :
        /\ (req[p].pc \in {"check_status", "q_status"} /\ req[p].writes = 1)
           => /\ req[p].entity = ZeroRecord
              /\ store.exists
              /\ req[p].alone => Stored(ZeroRecord)
              /\ ~toStatus(req[p].entity, now).isLocked
        /\ (IsQuery(p) /\ req[p].pc = "done" /\ req[p].writes = 1
              /\ req[p].resp.status = 200)
           => /\ ~req[p].resp.lockout.isLocked
              /\ req[p].resp.lockout.failedAttempts = 0
        /\ (IsLogin(p) /\ req[p].alone
              /\ req[p].pc \in {"check_create", "rfa_create", "q_create"})
           => ~store.exists
        /\ (req[p].pc = "done" /\ req[p].resp.status = 500
              /\ req[p].entity = NoEntity /\ ~req[p].verified)
           => req[p].writes = 0 /\ ~req[p].resp.session

C10_Witness ==
    \E p \in Procs :
        /\ IsLogin(p) /\ req[p].pc = "check_status"
        /\ req[p].writes = 1
        /\ req[p].entity = ZeroRecord
        /\ Stored(ZeroRecord)

\* C15. Validation error: a login whose body is not JSON, has no string code
\* or has a code that is empty once trimmed answers 400 in the step in which
\* it arrives: nothing is read from or written to the table, storage is not
\* initialised, verifyTotpCode is not called and the record is unchanged; a
\* login that goes on to the lock check carries a non-empty code.
C15_ValidationError ==
    [][ \A p \in Procs :
          (~InFlight(p) /\ req'[p].kind = "login") =>
              IF req'[p].code = NoCode
              THEN /\ req'[p].pc = "done"
                   /\ req'[p].resp.status = 400
                   /\ ~req'[p].resp.session
                   /\ req'[p].entity = NoEntity
                   /\ req'[p].writes = 0
                   /\ ~req'[p].verified
                   /\ store' = store
                   /\ initializationPromise' = initializationPromise
              ELSE /\ req'[p].pc = "check_get"
                   /\ req'[p].code \in Codes ]_vars

C15_Witness ==
    \E p \in Procs :
        /\ IsLogin(p) /\ req[p].pc = "done"
        /\ req[p].resp.status = 400
        /\ req[p].writes = 0 /\ ~req[p].verified
        /\ Stored([failedAttempts |-> 2, lockUntilEpochMs |-> 0])

\* p is a login whose code is not six digits once whitespace is removed.
Malformed(p) == IsLogin(p) /\ ~req[p].code.none /\ ~req[p].code.sixDigits

\* The record and the response a failed attempt counted from entity, with
\* recordFailedAttempt's clock value t, leaves behind.
CountedAs(p, entity, t) ==
    /\ Stored(failedEntity(entity, t))
    /\ req[p].resp.lockout = toStatus(failedEntity(entity, t), now)
    /\ req[p].resp.status = IF req[p].resp.lockout.isLocked THEN 423 ELSE 401
    /\ ~req[p].resp.session

\* C16. A code that is not six digits once whitespace is removed is refused
\* by verifyTotpCode (the request does not end in an error there), and the
\* login that carries it is counted as a failed attempt exactly like one with
\* a wrong six-digit code: past the lock check it goes on to
\* recordFailedAttempt, and run alone it leaves the record and the response
\* of a failure counted from the record it read.
C16_MalformedCode ==
    \A p \in Procs :
        Malformed(p) =>
            /\ ~verifyTotpCode(req[p].code)
            /\ req[p].pc \notin {"reset_save", "session"}
            /\ ~req[p].resp.session
            /\ (req[p].verified /\ req[p].pc # "done")
               => req[p].pc \in {"rfa_get", "rfa_create", "rfa_decide",
                                 "rfa_locked", "rfa_save", "rfa_status"}
            /\ FailedDone(p) => CountedAs(p, req[p].entity, req[p].now)

\* A login with a malformed code, run alone from (1, 0), has left (2, 0) and
\* answered 401 with failedAttempts = 2.
C16_Witness ==
    \E p \in Procs :
        /\ Malformed(p) /\ FailedDone(p)
        /\ req[p].entity = [failedAttempts |-> 1, lockUntilEpochMs |-> 0]
        /\ req[p].resp.status = 401
        /\ req[p].resp.lockout.failedAttempts = 2
        /\ Stored([failedAttempts |-> 2, lockUntilEpochMs |-> 0])

\* p is a login whose failure reached the ceiling: it saved a lock and answered.
EnteredLock(p) ==
    /\ IsLogin(p) /\ req[p].pc = "done"
    /\ req[p].verified
    /\ req[p].next.lockUntilEpochMs > 0
    /\ req[p].resp.status \in {401, 423}

\* C18 as claimed. The response of the failed attempt that enters the lock
\* reports isLocked with 0 < retryAfterSeconds <= lockMinutes * 60.
C18_AsClaimed ==
    \A p \in Procs :
        EnteredLock(p) =>
            /\ req[p].resp.lockout.isLocked
            /\ req[p].resp.lockout.retryAfterSeconds > 0
            /\ req[p].resp.lockout.retryAfterSeconds <= env.authLockMinutes * 60

\* C18, amended. The response of the failed attempt that enters the lock
\* reports lockUntil = (the clock value the attempt read) + lock duration
\* and a retryAfterSeconds of at most lockMinutes * 60; it reports isLocked
\* with a positive retryAfterSeconds (423) exactly when the status is computed
\* before lockUntil, and isLocked = false with retryAfterSeconds = 0 (401)
\* when the save has taken the whole lock duration.  A login run alone that
\* completes while the table holds an active lock it did not write itself
\* was rejected 423, verifyTotpCode never called and nothing written.
C18_LockResponse ==
    \A p \in Procs :
        /\ EnteredLock(p) =>
             LET lockout == req[p].resp.lockout
             IN  /\ lockout.lockUntilEpochMs = req[p].now + LockMs
                 /\ lockout.retryAfterSeconds >= 0
                 /\ lockout.retryAfterSeconds <= env.authLockMinutes * 60
                 /\ lockout.isLocked <=> now < lockout.lockUntilEpochMs
                 /\ lockout.isLocked <=> lockout.retryAfterSeconds > 0
                 /\ lockout.isLocked <=> req[p].resp.status = 423
        /\ (/\ IsLogin(p) /\ req[p].alone /\ req[p].pc = "done"
            /\ req[p].resp.status \notin {400, 500}
            /\ store.exists /\ store.entity.lockUntilEpochMs > now
            /\ ~EnteredLock(p))
           => /\ req[p].resp.status = 423
              /\ req[p].resp.lockout.isLocked
              /\ ~req[p].verified
              /\ req[p].writes = 0

\* The third wrong code of three has answered 423 with retryAfterSeconds = 60
\* (lockMinutes = 1), the status computed at the instant the lock was entered.
C18_Witness ==
    \E p \in Procs :
        /\ EnteredLock(p) /\ req[p].alone
        /\ env.authMaxAttempts = 3 /\ env.authLockMinutes = 1
        /\ req[p].entity.failedAttempts = 2
        /\ req[p].resp.status = 423
        /\ req[p].resp.lockout.retryAfterSeconds = 60

\* The positions at which a login awaits a storage call.
StorageCalls == StoragePoints \cup {"check_create", "rfa_create", "q_create"}

\* C20. Persistence failure: a login step that leaves a storage call either
\* goes on with the call's result, or ends the request with 500, no session
\* and nothing written by that step (the failure is not retried); the session
\* step is reached only from the reset write having put (0, 0) in the table,
\* and a session is issued only by that step.
C20_PersistenceFailure ==
    [][ \A p \in Procs :
          (IsLogin(p) /\ req'[p].pc # req[p].pc /\ req'[p].kind = "login") =>
              /\ (req[p].pc \in StorageCalls /\ req'[p].pc = "done")
                 => /\ req'[p].resp = [NoResp EXCEPT !.status = 500]
                    /\ req'[p].writes = req[p].writes
                    /\ store' = store
              /\ req'[p].pc = "session"
                 => /\ req[p].pc = "reset_save"
                    /\ store' = [exists |-> TRUE, entity |-> resetEntity]
                    /\ req'[p].writes = req[p].writes + 1
              /\ req'[p].resp.session
                 => req[p].pc = "session" /\ req'[p].resp.status = 200 ]_vars

\* A valid code passed the lock check over (2, 0), the reset write failed: 500,
\* no session, the count still 2.
C20_Witness ==
    \E p \in Procs :
        /\ Accepted(p) /\ req[p].alone /\ req[p].pc = "done"
        /\ req[p].resp.status = 500 /\ ~req[p].resp.session
        /\ req[p].entity = [failedAttempts |-> 2, lockUntilEpochMs |-> 0]
        /\ req[p].writes = 0
        /\ Stored([failedAttempts |-> 2, lockUntilEpochMs |-> 0])

\* ------------------------------------------------------------- toStatus on every record

\* Clock values and lock deadlines (ms) on both sides of whole seconds.
StatusTimes == {0, 1, 999, 1000, 1001, 1999, 2000, 2001, 61000}

\* The records toStatus is applied to.
StatusRecords ==
    [failedAttempts : 0..MaxAttemptsBound, lockUntilEpochMs : StatusTimes]

\* The clock moves on.
StatusTick ==
    /\ \E t \in StatusTimes :
          /\ t > now
          /\ now' = t
    /\ UNCHANGED <<env, lockoutVars, pureVars, sessionVars, envVars, deleteVars>>

\* getLockoutStatus on the record the table holds: getEntity's result goes
\* through toStatus, which reads the clock.
getLockoutStatus ==
    /\ store.exists
    /\ derived' = [entity |-> normalizeEntity(store.entity),
                   now |-> now,
                   status |-> toStatus(normalizeEntity(store.entity), now)]
    /\ UNCHANGED <<now, env, lockoutVars, totp, sessionVars, envVars, deleteVars>>

StatusInit ==
    /\ now \in StatusTimes
    /\ env \in [authMaxAttempts : 1..MaxAttemptsBound,
                authLockMinutes : 1..MaxLockMinutes,
                sessionSecret : {"secret1"},
                sessionTtlHours : {1}]
    /\ \E entity \in StatusRecords :
          store = [exists |-> TRUE, entity |-> entity]
    /\ initializationPromise = "fulfilled"
    /\ req = [p \in Procs |-> IdleReq]
    /\ history = NoHistory
    /\ PureIdle
    /\ SessionIdle
    /\ EnvIdle
    /\ DeleteIdle

StatusNext ==
    \/ StatusTick
    \/ getLockoutStatus

StatusSpec == StatusInit /\ [][StatusNext]_vars

\* C19. For every record and every clock value the derived status has
\* retryAfterSeconds = max(0, ceil((lockUntil - now) / 1000)), that is the
\* least whole number of seconds, not below zero, that reaches lockUntil;
\* isLocked = (retryAfterSeconds > 0), which holds exactly when
\* lockUntil > now; failedAttempts and lockUntilEpochMs are those of the
\* record and maxAttempts is the configured ceiling.
C19_DerivedStatus ==
    derived # NoDerived =>
        LET remaining == derived.entity.lockUntilEpochMs - derived.now
            status == derived.status
        IN  /\ status.retryAfterSeconds >= 0
            /\ status.retryAfterSeconds * 1000 >= remaining
            /\ status.retryAfterSeconds > 0
               => (status.retryAfterSeconds - 1) * 1000 < remaining
            /\ status.isLocked <=> status.retryAfterSeconds > 0
            /\ status.isLocked <=> derived.entity.lockUntilEpochMs > derived.now
            /\ status.failedAttempts = derived.entity.failedAttempts
            /\ status.lockUntilEpochMs = derived.entity.lockUntilEpochMs
            /\ status.maxAttempts = env.authMaxAttempts

\* One millisecond before the deadline: still locked, one second to wait.
C19_Witness ==
    /\ derived # NoDerived
    /\ derived.entity.lockUntilEpochMs = derived.now + 1
    /\ derived.status.isLocked
    /\ derived.status.retryAfterSeconds = 1

\* ------------------------------------------------------------- verifyTotpCode over time steps

\* verifySync's options in totp.ts: the step length and the tolerance, both
\* in seconds.
period == 30
epochTolerance == 1

\* Clock values (ms) at the start, in the middle and at the end of time steps.
TotpTimes == {30000, 30999, 31000, 45000, 58000, 59000, 59999, 60000, 61000,
              75000, 89000, 90000}

\* The time steps whose codes are submitted (the clock runs through steps
\* 1 to 3), and -1 for six digits that are the code of no time step.
TotpSteps == {-1, 0, 1, 2, 3, 4}

\* otplib's default epoch: Math.floor(Date.now() / 1000).
epochOf(t) == t \div 1000

\* The time step (counter) an epoch falls in.
timeStep(epoch) == epoch \div period

\* otplib verifySync, strategy "totp": the token is compared with the codes of
\* the time steps that the epochs from epoch - epochTolerance to
\* epoch + epochTolerance fall in.
verifySync(step, epoch) ==
    LET minCounter == Max(0, timeStep(epoch - epochTolerance))
        maxCounter == timeStep(epoch + epochTolerance)
    IN  [valid |-> step \in minCounter..maxCounter]

\* The clock moves on.
TotpTick ==
    /\ \E t \in TotpTimes :
          /\ t > now
          /\ now' = t
    /\ UNCHANGED <<env, lockoutVars, pureVars, sessionVars, envVars, deleteVars>>

\* A code is submitted to verifyTotpCode: six digits that are the code of
\* time step `step`, or a string that is not six digits.
Submit(step, sixDigits) ==
    LET epoch == epochOf(now)
        code == [sixDigits |-> sixDigits,
                 matches |-> sixDigits /\ verifySync(step, epoch).valid,
                 none |-> FALSE]
    IN  /\ totp' = [step |-> step, sixDigits |-> sixDigits, epoch |-> epoch,
                    valid |-> verifyTotpCode(code)]
        /\ UNCHANGED <<now, env, lockoutVars, derived, sessionVars, envVars, deleteVars>>

TotpInit ==
    /\ now \in TotpTimes
    /\ env \in [authMaxAttempts : {1},
                authLockMinutes : {1},
                sessionSecret : {"secret1"},
                sessionTtlHours : {1}]
    /\ LockoutIdle
    /\ PureIdle
    /\ SessionIdle
    /\ EnvIdle
    /\ DeleteIdle

TotpNext ==
    \/ TotpTick
    \/ \E step \in TotpSteps, sixDigits \in BOOLEAN : Submit(step, sixDigits)

TotpSpec == TotpInit /\ [][TotpNext]_vars

\* C17 as claimed. With a 30-second period and a tolerance of one step,
\* verifyTotpCode accepts the code of the current time step and of the steps
\* right before and right after it, and refuses the code of any other step.
C17_AsClaimed ==
    (totp # NoTotp /\ totp.sixDigits /\ totp.step >= 0) =>
        LET current == timeStep(totp.epoch)
        IN  totp.valid <=> totp.step \in (current - 1)..(current + 1)

\* ------------------------------------------------------------- session.ts and the item routes

\* The largest SESSION_TTL_HOURS the environment supplies.
MaxTtlHours == 2

\* The values SESSION_SECRET takes.
Secrets == {"secret1", "secret2"}

HourMs == 60 * 60 * 1000

\* Clock values (ms): two instants at which tokens are issued, and for each
\* lifetime the last millisecond before the expiry second of a token issued at
\* 1500, that second, and one hour and one second after the issue.
SessionTimes ==
    {1500, 2500}
    \cup { 1500 + h * HourMs + d : h \in 1..MaxTtlHours, d \in {-501, -500, 1000} }

\* The ids the items table can hold.
ItemIds == {"item1"}

SESSION_ALGO == "HS256"

\* getSecretKey: the bytes of the cached environment's sessionSecret.
getSecretKey == env.sessionSecret

\* jose's duration "<n>h" in seconds.
secs(hours) == hours * 60 * 60

\* createSessionToken with exp counted in days ("d" for "h").
createSessionToken_days(t) ==
    [alg |-> SESSION_ALGO, key |-> getSecretKey, iat |-> epochOf(t),
     exp |-> epochOf(t) + secs(env.sessionTtlHours) * 24,
     authenticated |-> TRUE, wellFormed |-> TRUE]

\* createSessionToken at clock value t: payload {authenticated: true}, header
\* alg HS256, iat = now in seconds, exp = now in seconds + the lifetime,
\* signed with the secret key (key: the secret whose signature the token bears).
createSessionToken(t) ==
    [alg |-> SESSION_ALGO, key |-> getSecretKey, iat |-> epochOf(t),
     exp |-> epochOf(t) + secs(env.sessionTtlHours),
     authenticated |-> TRUE, wellFormed |-> TRUE]

\* jwtVerify comparing exp (seconds) with the clock in milliseconds.
jwtVerify_milliseconds(token, key, t) ==
    [threw |-> \/ ~token.wellFormed
               \/ token.alg # SESSION_ALGO
               \/ token.key # key
               \/ token.exp <= t,
     payload |-> [authenticated |-> token.authenticated]]

\* jwtVerify not checking the signature.
jwtVerify_unsigned(token, key, t) ==
    [threw |-> \/ ~token.wellFormed
               \/ token.alg # SESSION_ALGO
               \/ token.exp <= epochOf(t),
     payload |-> [authenticated |-> token.authenticated]]

\* jose's jwtVerify(token, key, {algorithms: [HS256]}) at clock value t: it
\* throws for a string that is not a compact JWS, for another alg, for a
\* signature that key does not verify and for exp <= now in seconds;
\* otherwise it returns the payload.
jwtVerify(token, key, t) ==
    [threw |-> \/ ~token.wellFormed
               \/ token.alg # SESSION_ALGO
               \/ token.key # key
               \/ token.exp <= epochOf(t),
     payload |-> [authenticated |-> token.authenticated]]

\* verifySessionToken returning true for every token jwtVerify accepts.
verifySessionToken_anyPayload(token, t) ==
    LET result == jwtVerify(token, getSecretKey, t)
    IN  IF result.threw THEN FALSE ELSE TRUE

\* verifySessionToken: the catch turns every exception into false.
verifySessionToken(token, t) ==
    LET result == jwtVerify(token, getSecretKey, t)
    IN  IF result.threw THEN FALSE ELSE result.payload.authenticated = TRUE

\* isAuthenticatedRequest taking any cookie for a session.
isAuthenticatedRequest_anyCookie(request, t) ==
    IF ~request.hasCookie THEN FALSE ELSE TRUE

\* isAuthenticatedRequest: no cookie (or an empty one) is false.
isAuthenticatedRequest(request, t) ==
    IF ~request.hasCookie THEN FALSE ELSE verifySessionToken(request.cookie, t)

\* The cookies a client can present with a token it was issued: the token, or
\* the token with its signature or payload tampered with, another alg, a
\* string that is no token; and a token signed with the same secret that does
\* not carry authenticated = true.
Presentable(token) ==
    { token,
      [token EXCEPT !.key = "forged"],
      [token EXCEPT !.alg = "none"],
      [token EXCEPT !.wellFormed = FALSE],
      [token EXCEPT !.authenticated = FALSE] }

\* No item response is being delivered.
ItemQuiet == itemReq.pc # "done"

\* The clock moves on.
SessionTick ==
    /\ ItemQuiet
    /\ \E t \in SessionTimes :
          /\ t > now
          /\ now' = t
    /\ UNCHANGED <<env, lockoutVars, pureVars, sessionVars, envVars, deleteVars>>

\* setSessionCookie at the end of a successful login: a token is created and
\* set as the client's privy_session cookie, in place of the one it had.
\* issuedAt and ttlHours note when and with what lifetime it was issued.
issueSession ==
    /\ ItemQuiet
    /\ jar' = {[token |-> createSessionToken(now), issuedAt |-> now,
                ttlHours |-> env.sessionTtlHours, cleared |-> FALSE]}
    /\ jar' # jar
    /\ UNCHANGED <<now, env, lockoutVars, pureVars, itemReq, vault, envVars, deleteVars>>

\* clearSessionCookie at logout: the response sets the cookie to "" with
\* maxAge 0, so the browser drops it.  Nothing is recorded on the server; a
\* copy of the token can still be presented.
clearSessionCookie ==
    /\ ItemQuiet
    /\ \E e \in jar :
          /\ ~e.cleared
          /\ jar' = {[e EXCEPT !.cleared = TRUE]}
    /\ UNCHANGED <<now, env, lockoutVars, pureVars, itemReq, vault, envVars, deleteVars>>

\* The signing secret (or the lifetime) is changed and the app restarted: the
\* cached environment is read anew.  The tokens issued stay with the clients.
Restart(secret, hours) ==
    /\ itemReq.pc = "idle"
    /\ env' = [env EXCEPT !.sessionSecret = secret, !.sessionTtlHours = hours]
    /\ env' # env
    /\ UNCHANGED <<now, lockoutVars, pureVars, sessionVars, envVars, deleteVars>>

\* A request to an item route arrives: GET or POST /api/items, or
\* DELETE /api/items/[id], with or without a session cookie.
Items_arrive(route, hasCookie, cookie) ==
    /\ itemReq.pc = "idle"
    /\ itemReq' = [IdleItemReq EXCEPT !.pc = "auth", !.route = route,
                                      !.hasCookie = hasCookie, !.cookie = cookie]
    /\ UNCHANGED <<now, env, lockoutVars, pureVars, jar, vault, envVars, deleteVars>>

\* After await isAuthenticatedRequest(request): 401, or on to the route's work.
Items_authenticate ==
    /\ itemReq.pc = "auth"
    /\ LET authenticated == isAuthenticatedRequest(itemReq, now)
       IN  itemReq' = IF ~authenticated
                      THEN [itemReq EXCEPT !.pc = "done", !.at = now,
                                           !.status = 401]
                      ELSE [itemReq EXCEPT !.pc = "storage", !.at = now,
                                           !.authenticated = TRUE]
    /\ UNCHANGED <<now, env, lockoutVars, pureVars, jar, vault, envVars, deleteVars>>

\* The route's work: listItems; a create (400 without storage for an unknown
\* kind or a missing file); deleteItemById (400 for a missing id).  A storage
\* call that fails ends the request with 500.
Items_storage ==
    /\ itemReq.pc = "storage"
    /\ \/ /\ itemReq.route = "list"
          /\ \E status \in {200, 500} :
                itemReq' = [itemReq EXCEPT !.pc = "done", !.ops = @ + 1,
                                           !.status = status]
          /\ UNCHANGED vault
       \/ /\ itemReq.route = "create"
          /\ \/ /\ itemReq' = [itemReq EXCEPT !.pc = "done", !.status = 400]
                /\ UNCHANGED vault
             \/ /\ itemReq' = [itemReq EXCEPT !.pc = "done", !.ops = @ + 1,
                                              !.status = 500]
                /\ UNCHANGED vault
             \/ \E id \in ItemIds \ vault :
                   /\ itemReq' = [itemReq EXCEPT !.pc = "done", !.ops = @ + 1,
                                                 !.status = 201]
                   /\ vault' = vault \cup {id}
       \/ /\ itemReq.route = "delete"
          /\ \/ /\ itemReq' = [itemReq EXCEPT !.pc = "done", !.status = 400]
                /\ UNCHANGED vault
             \/ /\ itemReq' = [itemReq EXCEPT !.pc = "done", !.ops = @ + 1,
                                              !.status = 500]
                /\ UNCHANGED vault
             \/ \E id \in ItemIds :
                   /\ itemReq' = [itemReq EXCEPT !.pc = "done", !.ops = @ + 1,
                                                 !.status = 200]
                   /\ vault' = vault \ {id}
    /\ UNCHANGED <<now, env, lockoutVars, pureVars, jar, envVars, deleteVars>>

\* The response has been sent.
Items_close ==
    /\ itemReq.pc = "done"
    /\ itemReq' = IdleItemReq
    /\ UNCHANGED <<now, env, lockoutVars, pureVars, jar, vault, envVars, deleteVars>>

SessionInit ==
    /\ now = 1500
    /\ env \in [authMaxAttempts : {1},
                authLockMinutes : {1},
                sessionSecret : Secrets,
                sessionTtlHours : 1..MaxTtlHours]
    /\ store \in {[exists |-> FALSE, entity |-> NoEntity],
                  [exists |-> TRUE, entity |-> failedEntity(ZeroRecord, now)]}
    /\ initializationPromise = "null"
    /\ req = [p \in Procs |-> IdleReq]
    /\ history = NoHistory
    /\ PureIdle
    /\ SessionIdle
    /\ EnvIdle
    /\ DeleteIdle

SessionNext ==
    \/ SessionTick
    \/ issueSession
    \/ clearSessionCookie
    \/ \E secret \in Secrets, hours \in 1..MaxTtlHours : Restart(secret, hours)
    \/ \E route \in {"list", "create", "delete"} :
          \/ Items_arrive(route, FALSE, NoToken)
          \/ \E e \in jar : \E cookie \in Presentable(e.token) :
                Items_arrive(route, TRUE, cookie)
    \/ Items_authenticate
    \/ Items_storage
    \/ Items_close

SessionSpec == SessionInit /\ [][SessionNext]_vars

\* The item request has been through isAuthenticatedRequest.
Checked == itemReq.pc \in {"storage", "done"}

\* The item request presented the token of jar entry e.
Presented(e) == itemReq.hasCookie /\ itemReq.cookie = e.token

\* What makes a token a session at clock value t: a well-formed HS256 token
\* signed with the secret in use, not expired, carrying authenticated = true.
TokenVerifies(token, t) ==
    /\ token.wellFormed
    /\ token.alg = "HS256"
    /\ token.key = env.sessionSecret
    /\ epochOf(t) < token.exp
    /\ token.authenticated

\* C11. Session round trip: under an unchanged signing secret, a token issued
\* at t with ttlHours = h verifies true when checked at t, and verifies false
\* (the request is answered 401) when checked at t + h hours + 1 second or
\* later.
C11_SessionRoundTrip ==
    \A e \in jar :
        (Checked /\ Presented(e) /\ e.token.key = env.sessionSecret) =>
            /\ itemReq.at = e.issuedAt => itemReq.authenticated
            /\ itemReq.at >= e.issuedAt + e.ttlHours * HourMs + 1000
               => /\ ~itemReq.authenticated
                  /\ itemReq.status = 401

\* A token issued at 1500 for two hours was presented two hours and one
\* second later, the secret unchanged, and refused.
C11_Witness ==
    \E e \in jar :
        /\ Checked /\ Presented(e) /\ e.token.key = env.sessionSecret
        /\ e.issuedAt = 1500 /\ e.ttlHours = 2
        /\ itemReq.at = 1500 + 2 * HourMs + 1000
        /\ ~itemReq.authenticated
        /\ itemReq.status = 401

\* C12. Session verification is true only for a well-formed token whose
\* signature the secret in use verifies, that is unexpired and carries
\* authenticated = true; no cookie, a malformed token, a wrong signature and
\* an expired token all give false, never an exception, and the caller answers
\* each of them with the same 401 and no storage work.
C12_VerificationFailures ==
    Checked =>
        /\ itemReq.authenticated
           <=> (itemReq.hasCookie /\ TokenVerifies(itemReq.cookie, itemReq.at))
        /\ ~itemReq.authenticated
           => /\ itemReq.pc = "done"
              /\ itemReq.status = 401
              /\ itemReq.ops = 0

\* An issued token with its signature tampered with, unexpired, was refused.
C12_Witness ==
    \E e \in jar :
        /\ itemReq.pc = "done" /\ itemReq.hasCookie
        /\ itemReq.cookie = [e.token EXCEPT !.key = "forged"]
        /\ e.token.key = env.sessionSecret
        /\ epochOf(itemReq.at) < e.token.exp
        /\ ~itemReq.authenticated
        /\ itemReq.status = 401

\* C13. Secret rotation invalidates sessions: every token issued under a
\* secret other than the one now in use verifies false.
C13_SecretRotation ==
    \A e \in jar :
        (Checked /\ Presented(e) /\ e.token.key # env.sessionSecret) =>
            /\ ~itemReq.authenticated
            /\ itemReq.status = 401

\* A token issued under secret1, still unexpired, was refused after the
\* secret became secret2.
C13_Witness ==
    \E e \in jar :
        /\ Checked /\ Presented(e)
        /\ e.token.key = "secret1" /\ env.sessionSecret = "secret2"
        /\ epochOf(itemReq.at) < e.token.exp
        /\ ~itemReq.authenticated
        /\ itemReq.status = 401

\* C14. Every item route (list, create, delete) answers 401 without any
\* storage operation unless the request carries a session token that
\* verifies: the step after isAuthenticatedRequest goes on to the route's
\* work exactly when the token verifies, and the items table is touched only
\* by a request that was let through.
C14_ProtectedRoutes ==
    [][ /\ (itemReq.pc = "auth" /\ itemReq'.pc # "auth")
           => IF itemReq.hasCookie /\ TokenVerifies(itemReq.cookie, now)
              THEN itemReq'.pc = "storage" /\ itemReq'.ops = 0 /\ vault' = vault
              ELSE /\ itemReq'.pc = "done"
                   /\ itemReq'.status = 401
                   /\ itemReq'.ops = 0
                   /\ vault' = vault
        /\ (vault' # vault \/ itemReq'.ops > itemReq.ops)
           => /\ itemReq.pc = "storage"
              /\ itemReq.hasCookie
              /\ TokenVerifies(itemReq.cookie, itemReq.at) ]_vars

\* A delete with an expired token was answered 401, the item still there.
C14_Witness ==
    \E e \in jar :
        /\ itemReq.pc = "done" /\ itemReq.route = "delete"
        /\ Presented(e) /\ e.token.key = env.sessionSecret
        /\ epochOf(itemReq.at) >= e.token.exp
        /\ itemReq.status = 401 /\ itemReq.ops = 0
        /\ vault = {"item1"}

\* ------------------------------------------------------------- lockout: invariants and races

\* C21. Every record a login is about to write or has written has
\* failedAttempts = 0 when it enters a lock (lockUntil # 0) and when it follows
\* a successful login; and every stored record has failedAttempts = 0 or
\* lockUntil = 0, under every interleaving of logins and status queries.
C21_CountResetOnLock ==
    /\ store.exists
       => (store.entity.failedAttempts = 0 \/ store.entity.lockUntilEpochMs = 0)
    /\ \A p \in Procs :
          (IsLogin(p) /\ req[p].next # NoEntity) =>
              /\ req[p].next.lockUntilEpochMs # 0 => req[p].next.failedAttempts = 0
              /\ Accepted(p) => req[p].next = ZeroRecord

\* The failure that reached a ceiling of 3 is stored as a lock with the
\* count back at 0, while a second login is still in flight.
C21_Witness ==
    \E p \in Procs :
        /\ IsLogin(p) /\ req[p].pc = "rfa_status"
        /\ env.authMaxAttempts = 3
        /\ req[p].entity.failedAttempts = 2
        /\ Stored([failedAttempts |-> 0, lockUntilEpochMs |-> req[p].now + LockMs])
        /\ \E q \in Procs \ {p} : IsLogin(q) /\ InFlight(q)

\* C22. Every lockUntil a login writes is 0 or strictly greater than the clock
\* value read by the operation that writes it: that value plus
\* lockMinutes * 60000; and the table never holds any other kind of value.
C22_LockUntilInFuture ==
    /\ \A p \in Procs :
          (IsLogin(p) /\ req[p].next # NoEntity /\ req[p].next.lockUntilEpochMs # 0)
          => /\ req[p].now >= 0
             /\ req[p].next.lockUntilEpochMs > req[p].now
             /\ req[p].next.lockUntilEpochMs = req[p].now + LockMs
    /\ store.exists
       => \/ store.entity.lockUntilEpochMs = 0
          \/ \E t \in Instants :
                /\ t <= now
                /\ store.entity.lockUntilEpochMs = t + LockMs

\* A lock computed at 1000 was written only at 61000, its own deadline.
C22_Witness ==
    \E p \in Procs :
        /\ IsLogin(p) /\ req[p].pc = "rfa_status"
        /\ req[p].now = 1000
        /\ now = 61000
        /\ Stored([failedAttempts |-> 0, lockUntilEpochMs |-> 61000])

\* C25. The stored failedAttempts always satisfies
\* 0 <= failedAttempts < maxAttempts, under every interleaving.
C25_CountBelowCeiling ==
    store.exists =>
        /\ store.entity.failedAttempts >= 0
        /\ store.entity.failedAttempts < env.authMaxAttempts

\* Two logins in flight, the table at the last count below a ceiling of 3.
C25_Witness ==
    /\ env.authMaxAttempts = 3
    /\ Stored([failedAttempts |-> 2, lockUntilEpochMs |-> 0])
    /\ \A p \in Procs : IsLogin(p) /\ InFlight(p) /\ req[p].verified

\* C26 as claimed. A lock, once written, holds until its deadline: no step of
\* a login changes a stored record whose lockUntil is still ahead of the
\* clock.
C26_AsClaimed ==
    [][ \A p \in Procs :
          (/\ IsLogin(p) /\ req'[p].pc # req[p].pc
           /\ store.exists /\ store.entity.lockUntilEpochMs > now)
          => store' = store ]_vars

\* C27 as claimed. No login sets the session credential at a moment when the
\* stored record has lockUntil > now.
C27_AsClaimed ==
    \A p \in Procs :
        (IsLogin(p) /\ req[p].pc = "done" /\ req[p].resp.session)
        => ~(store.exists /\ store.entity.lockUntilEpochMs > now)

\* C27, amended. A login sets the session credential only if its own lock
\* check read a record that was not locked (lockUntil <= its clock value),
\* its code verified and its reset write went through; run alone it leaves the
\* table at (0, 0).  (A concurrent failed attempt may have stored a lock in
\* the meantime.)
C27_SessionAfterOwnLockCheck ==
    \A p \in Procs :
        (IsLogin(p) /\ (req[p].pc = "session" \/ req[p].resp.session)) =>
            /\ ~req[p].checkLocked
            /\ Accepted(p)
            /\ req[p].next = ZeroRecord
            /\ req[p].writes >= 1
            /\ req[p].alone => Stored(ZeroRecord)

\* A session was issued while the table held a lock that a concurrent failed
\* attempt had stored after this login's lock check.
C27_Witness ==
    \E p \in Procs :
        /\ IsLogin(p) /\ req[p].pc = "done" /\ req[p].resp.session
        /\ ~req[p].checkLocked
        /\ store.exists /\ store.entity.lockUntilEpochMs > now

\* p is a login that took recordFailedAttempt's early return and has answered.
EarlyReturn(p) ==
    /\ IsLogin(p) /\ req[p].pc = "done"
    /\ req[p].verified /\ ~Accepted(p)
    /\ req[p].now >= 0 /\ req[p].next = NoEntity
    /\ req[p].resp.status \in {401, 423}

\* C28 as claimed. A failed attempt whose recordFailedAttempt read a locked
\* record answers with the locked rejection, 423.
C28_AsClaimed ==
    \A p \in Procs :
        EarlyReturn(p) => req[p].resp.status = 423 /\ req[p].resp.lockout.isLocked

\* C28, amended. A failed attempt whose recordFailedAttempt reads a record
\* with lockUntil > now writes nothing and returns the status of that record,
\* computed at a second reading of the clock: the login answers 423 when that
\* reading is still before lockUntil, and 401 with isLocked = false when the
\* lock ran out between the two readings.
C28_RecheckOnFailure ==
    [][ \A p \in Procs :
          IsLogin(p) =>
              /\ (/\ req[p].pc = "rfa_decide" /\ req'[p].pc # "rfa_decide"
                  /\ req[p].entity.lockUntilEpochMs > now)
                 => /\ req'[p].pc = "rfa_locked"
                    /\ req'[p].writes = req[p].writes
                    /\ store' = store
              /\ (req[p].pc = "rfa_locked" /\ req'[p].pc # "rfa_locked")
                 => /\ req'[p].pc = "done"
                    /\ req'[p].writes = req[p].writes
                    /\ store' = store
                    /\ req'[p].resp.lockout.lockUntilEpochMs
                         = req[p].entity.lockUntilEpochMs
                    /\ req'[p].resp.lockout.failedAttempts
                         = req[p].entity.failedAttempts
                    /\ IF now < req[p].entity.lockUntilEpochMs
                       THEN /\ req'[p].resp.status = 423
                            /\ req'[p].resp.lockout.isLocked
                       ELSE /\ req'[p].resp.status = 401
                            /\ ~req'[p].resp.lockout.isLocked ]_vars

\* A login passed its lock check, then read the lock another attempt had
\* entered, and answered 423 having written nothing.
C28_Witness ==
    \E p \in Procs :
        /\ EarlyReturn(p)
        /\ ~req[p].checkLocked
        /\ req[p].entity.lockUntilEpochMs > now
        /\ req[p].resp.status = 423
        /\ req[p].writes = 0
        /\ Stored(req[p].entity)

\* C29. Storage initialization runs at most once: the creation calls are
\* issued only while no attempt exists, an attempt is never replaced or
\* forgotten and its outcome never changes, and a request gets past
\* initializeStorage only on that attempt's success and ends with 500 on its
\* failure.
C29_InitializeOnce ==
    [][ /\ initializationPromise' # initializationPromise
           => \/ initializationPromise = "null" /\ initializationPromise' = "pending"
              \/ /\ initializationPromise = "pending"
                 /\ initializationPromise' \in {"fulfilled", "rejected"}
        /\ \A p \in Procs :
              (req[p].pc \in StoragePoints /\ req'[p].pc # req[p].pc)
              => IF initializationPromise = "rejected"
                 THEN /\ req'[p].pc = "done"
                      /\ req'[p].resp.status = 500
                      /\ store' = store
                 ELSE initializationPromise = "fulfilled" ]_vars

\* The single attempt failed; a second request, not the one that started it,
\* is answered 500 while another is still waiting on the same attempt.
C29_Witness ==
    \E p \in Procs : \E q \in Procs \ {p} :
        /\ initializationPromise = "rejected"
        /\ req[p].pc = "done" /\ req[p].resp.status = 500
        /\ ~req[p].alone
        /\ req[q].pc \in StoragePoints

\* ------------------------------------------------------------- sessions: no revocation

\* C23. No revocation: an issued token presented before its expiry second
\* verifies as authenticated whether or not a logout has cleared the cookie
\* since and whatever the lockout record holds (failed attempts, an active
\* lock); it verifies false before its expiry only when the signing secret in
\* use is no longer the one it was signed with.
C23_NoRevocation ==
    \A e \in jar :
        (Checked /\ Presented(e) /\ epochOf(itemReq.at) < e.token.exp) =>
            /\ e.token.key = env.sessionSecret => itemReq.authenticated
            /\ ~itemReq.authenticated => e.token.key # env.sessionSecret

\* After a logout, and while the lockout record holds an active lock, a copy
\* of the token issued earlier was presented and let through.
C23_Witness ==
    \E e \in jar :
        /\ e.cleared
        /\ store.exists /\ store.entity.lockUntilEpochMs > itemReq.at
        /\ itemReq.pc = "done" /\ Presented(e)
        /\ itemReq.at > e.issuedAt
        /\ itemReq.authenticated
        /\ itemReq.status = 200

\* ------------------------------------------------------------- env.ts

\* A raw value of process.env, by what getEnv looks at: whether the variable
\* is set, its length, its length once trimmed, whether Number() of it is
\* finite and what it parses to; text names the string.
RawUnset ==
    [defined |-> FALSE, length |-> 0, trimmed |-> 0, finite |-> FALSE,
     parsed |-> 0, text |-> "undefined"]

\* A variable set to spaces only.
RawBlank ==
    [defined |-> TRUE, length |-> 2, trimmed |-> 0, finite |-> TRUE,
     parsed |-> 0, text |-> "blank"]

\* A variable set to a string of the given length that is no number.
RawString(text, length) ==
    [defined |-> TRUE, length |-> length, trimmed |-> length, finite |-> FALSE,
     parsed |-> 0, text |-> text]

\* A variable set to the decimal digits of n.
RawNumber(n) ==
    [defined |-> TRUE, length |-> 1, trimmed |-> 1, finite |-> TRUE,
     parsed |-> n, text |-> "digits"]

\* The values each variable of the environment can be given.
RawValues ==
    [AZURE_STORAGE_CONNECTION_STRING |-> {RawUnset, RawString("connection1", 120)},
     TOTP_SECRET_BASE32 |-> {RawUnset, RawBlank, RawString("totp1", 32)},
     SESSION_SECRET |-> {RawUnset, RawString("short", 31),
                         RawString("secret1", 32), RawString("secret2", 48)},
     SESSION_TTL_HOURS |-> {RawUnset, RawNumber(0), RawNumber(2)},
     AUTH_MAX_ATTEMPTS |-> {RawUnset, RawString("abc", 3), RawNumber(0), RawNumber(1)},
     AUTH_LOCK_MINUTES |-> {RawUnset, RawNumber(0)},
     MAX_UPLOAD_MB |-> {RawBlank, RawNumber(0)}]

\* The environments the process can be started in.
ProcessEnvs ==
    [AZURE_STORAGE_CONNECTION_STRING : RawValues.AZURE_STORAGE_CONNECTION_STRING,
     TOTP_SECRET_BASE32 : RawValues.TOTP_SECRET_BASE32,
     SESSION_SECRET : RawValues.SESSION_SECRET,
     SESSION_TTL_HOURS : RawValues.SESSION_TTL_HOURS,
     AUTH_MAX_ATTEMPTS : RawValues.AUTH_MAX_ATTEMPTS,
     AUTH_LOCK_MINUTES : RawValues.AUTH_LOCK_MINUTES,
     MAX_UPLOAD_MB : RawValues.MAX_UPLOAD_MB]

\* cachedEnv = null.
NoEnv ==
    [azureStorageConnectionString |-> "null", totpSecretBase32 |-> "null",
     sessionSecret |-> "null", sessionTtlHours |-> 0, authMaxAttempts |-> 0,
     authLockMinutes |-> 0, maxUploadMb |-> 0]

\* !value || value.trim().length === 0
missing(value) == ~value.defined \/ value.length = 0 \/ value.trimmed = 0

\* required: throws for a missing or blank value, else returns it.
required(value) ==
    [threw |-> missing(value), value |-> value.text]

\* optionalNumber: the default for a missing or blank value; throws when the
\* value is not a finite number or is below the minimum.
optionalNumber(value, defaultValue, minimum) ==
    IF missing(value)
    THEN [threw |-> FALSE, value |-> defaultValue]
    ELSE [threw |-> ~value.finite \/ value.parsed < minimum, value |-> value.parsed]

\* getEnv from nextEnv on: the fields are built in order (the optionalString
\* fields, which never throw, are left out), then the length of the signing
\* secret is checked.  threw: an exception left getEnv before line 79.
nextEnv(pe) ==
    LET azureStorageConnectionString == required(pe.AZURE_STORAGE_CONNECTION_STRING)
        totpSecretBase32 == required(pe.TOTP_SECRET_BASE32)
        sessionSecret == required(pe.SESSION_SECRET)
        sessionTtlHours == optionalNumber(pe.SESSION_TTL_HOURS, 12, 1)
        authMaxAttempts == optionalNumber(pe.AUTH_MAX_ATTEMPTS, 10, 1)
        authLockMinutes == optionalNumber(pe.AUTH_LOCK_MINUTES, 30, 1)
        maxUploadMb == optionalNumber(pe.MAX_UPLOAD_MB, 20, 1)
    IN  [threw |-> \/ azureStorageConnectionString.threw
                   \/ totpSecretBase32.threw
                   \/ sessionSecret.threw
                   \/ sessionTtlHours.threw
                   \/ authMaxAttempts.threw
                   \/ authLockMinutes.threw
                   \/ maxUploadMb.threw
                   \/ pe.SESSION_SECRET.length < 32,
         value |-> [azureStorageConnectionString |-> azureStorageConnectionString.value,
                    totpSecretBase32 |-> totpSecretBase32.value,
                    sessionSecret |-> sessionSecret.value,
                    sessionTtlHours |-> sessionTtlHours.value,
                    authMaxAttempts |-> authMaxAttempts.value,
                    authLockMinutes |-> authLockMinutes.value,
                    maxUploadMb |-> maxUploadMb.value]]

\* No getEnv call is returning.
EnvQuiet == envCall.pc = "idle"

\* getEnv reading the environment at every call.
getEnv_uncached ==
    /\ EnvQuiet
    /\ LET next == nextEnv(processEnv)
       IN  IF next.threw
           THEN /\ envCall' = [pc |-> "returned", threw |-> TRUE]
                /\ UNCHANGED env
           ELSE /\ env' = next.value
                /\ envCall' = [pc |-> "returned", threw |-> FALSE]
    /\ UNCHANGED <<now, processEnv, lockoutVars, pureVars, sessionVars, deleteVars>>

\* getEnv: the cached value if there is one; else the environment is read and
\* validated, and cached only when nothing threw.  The value returned is the
\* cache (env) at pc = "returned" with threw = FALSE.
getEnv ==
    /\ EnvQuiet
    /\ IF env # NoEnv
       THEN /\ envCall' = [pc |-> "returned", threw |-> FALSE]
            /\ UNCHANGED env
       ELSE LET next == nextEnv(processEnv)
            IN  IF next.threw
                THEN /\ envCall' = [pc |-> "returned", threw |-> TRUE]
                     /\ UNCHANGED env
                ELSE /\ env' = next.value
                     /\ envCall' = [pc |-> "returned", threw |-> FALSE]
    /\ UNCHANGED <<now, processEnv, lockoutVars, pureVars, sessionVars, deleteVars>>

\* The caller goes on with what getEnv returned or threw.
getEnv_returned ==
    /\ envCall.pc = "returned"
    /\ envCall' = NoEnvCall
    /\ UNCHANGED <<now, env, processEnv, lockoutVars, pureVars, sessionVars, deleteVars>>

\* The environment changes under the running process: one variable is set,
\* unset or given another value.
Environment_change(name, value) ==
    /\ EnvQuiet
    /\ value # processEnv[name]
    /\ processEnv' = [processEnv EXCEPT ![name] = value]
    /\ UNCHANGED <<now, env, envCall, lockoutVars, pureVars, sessionVars, deleteVars>>

\* The process has started: nothing is cached.
EnvInit ==
    /\ now = 1000
    /\ env = NoEnv
    /\ processEnv \in ProcessEnvs
    /\ envCall = NoEnvCall
    /\ LockoutIdle
    /\ PureIdle
    /\ SessionIdle
    /\ DeleteIdle

EnvNext ==
    \/ getEnv
    \/ getEnv_returned
    \/ \E name \in DOMAIN RawValues :
          \E value \in RawValues[name] : Environment_change(name, value)

EnvSpec == EnvInit /\ [][EnvNext]_vars

\* A variable is given a value that is not blank.
Given(value) == value.defined /\ value.trimmed > 0

\* The environment passes the validation the configuration demands: the three
\* required values are given, every numeric value that is given is a number
\* and at least 1, and the signing secret has at least 32 characters.
ValidEnvironment(pe) ==
    /\ Given(pe.AZURE_STORAGE_CONNECTION_STRING)
    /\ Given(pe.TOTP_SECRET_BASE32)
    /\ Given(pe.SESSION_SECRET)
    /\ pe.SESSION_SECRET.length >= 32
    /\ \A name \in {"SESSION_TTL_HOURS", "AUTH_MAX_ATTEMPTS",
                    "AUTH_LOCK_MINUTES", "MAX_UPLOAD_MB"} :
          Given(pe[name]) => pe[name].finite /\ pe[name].parsed >= 1

\* C24. Configuration is loaded once.  A getEnv call made when a value is
\* cached returns that value and leaves it cached, whatever the environment
\* has become; a call made when nothing is cached throws and caches nothing
\* if the environment fails validation, and otherwise caches and returns the
\* environment's values; nothing but such a call changes the cache.
C24_LoadedOnce ==
    [][ /\ env # NoEnv => env' = env
        /\ (envCall.pc = "idle" /\ envCall'.pc = "returned") =>
              IF env # NoEnv
              THEN ~envCall'.threw
              ELSE IF ValidEnvironment(processEnv)
              THEN /\ ~envCall'.threw
                   /\ env' # NoEnv
                   /\ env'.sessionSecret = processEnv.SESSION_SECRET.text
                   /\ env'.totpSecretBase32 = processEnv.TOTP_SECRET_BASE32.text
                   /\ env'.authMaxAttempts >= 1
                   /\ env'.authLockMinutes >= 1
                   /\ env'.sessionTtlHours >= 1
              ELSE /\ envCall'.threw
                   /\ env' = NoEnv
        /\ env' # env => envCall.pc = "idle" /\ envCall'.pc = "returned" ]_vars

\* The configuration was loaded with secret1; the environment has since lost
\* its TOTP secret and had its signing secret replaced, and a later getEnv
\* call returned the cached values all the same.
C24_Witness ==
    /\ envCall.pc = "returned" /\ ~envCall.threw
    /\ env # NoEnv
    /\ env.sessionSecret = "secret1"
    /\ env.totpSecretBase32 = "totp1"
    /\ processEnv.SESSION_SECRET.text = "short"
    /\ ~Given(processEnv.TOTP_SECRET_BASE32)
    /\ ~ValidEnvironment(processEnv)

\* ------------------------------------------------------------- items.ts: deleteItemById

\* The ids of the items table's entities: a text item and a file item.
StoredIds == {"text1", "file1"}

\* entity.blobName: a file or image item names its blob, a text or link item
\* has null.
blobNameOf(id) == IF id = "file1" THEN "blob1" ELSE "null"

BlobNames == {"blob1"}

\* No delete response is being delivered.
DeleteQuiet == \A p \in Procs : del[p].pc # "done"

\* deleteItemById returns: DELETE answers {success: true}.
Return(p, d) ==
    del' = [del EXCEPT ![p] = [d EXCEPT !.pc = "done", !.status = 200]]

\* An error leaves deleteItemById and DELETE: the framework answers 500.
Rethrow(p, d) ==
    del' = [del EXCEPT ![p] = [d EXCEPT !.pc = "done", !.threw = TRUE,
                                        !.status = 500]]

\* DELETE /api/items/[id], authenticated and with an id: deleteItemById(id)
\* is called.
DELETE(p, id) ==
    /\ DeleteQuiet
    /\ del[p].pc = "idle"
    /\ del' = [del EXCEPT ![p] = [IdleDelete EXCEPT !.pc = "init", !.id = id]]
    /\ UNCHANGED <<now, env, lockoutVars, pureVars, jar, itemReq, vault, envVars, blobs>>

\* await initializeStorage() in deleteItemById.
deleteItemById_initialize(p) ==
    /\ DeleteQuiet
    /\ del[p].pc = "init"
    /\ initializationPromise \in {"fulfilled", "rejected"}
    /\ IF initializationPromise = "rejected"
       THEN Rethrow(p, del[p])
       ELSE del' = [del EXCEPT ![p].pc = "get"]
    /\ UNCHANGED <<now, env, lockoutVars, pureVars, jar, itemReq, vault, envVars, blobs>>

\* itemsTableClient.getEntity(PARTITION_KEY, id): the entity, or not found
\* (return, nothing to delete), or another error (rethrown).  isNotFoundError
\* of items.ts is the same function as lockout.ts's.
deleteItemById_getEntity(p) ==
    /\ DeleteQuiet
    /\ del[p].pc = "get"
    /\ \/ /\ del[p].id \in vault
          /\ LET blobName == blobNameOf(del[p].id)
             IN  del' = [del EXCEPT ![p].blobName = blobName,
                                    ![p].pc = IF blobName # "null"
                                              THEN "blob" ELSE "entity"]
       \/ \E error \in {ErrNotFound, ErrOther} :
             /\ error = ErrNotFound => del[p].id \notin vault
             /\ IF isNotFoundError(error)
                THEN Return(p, del[p])
                ELSE Rethrow(p, del[p])
    /\ UNCHANGED <<now, env, lockoutVars, pureVars, jar, itemReq, vault, envVars, blobs>>

\* blobContainerClient.deleteBlob(entity.blobName): deleted, or not found
\* (swallowed by the catch), or another error (rethrown).
deleteItemById_deleteBlob(p) ==
    /\ DeleteQuiet
    /\ del[p].pc = "blob"
    /\ LET called == [del[p] EXCEPT !.calls = @ + 1]
       IN  \/ /\ del[p].blobName \in blobs
              /\ blobs' = blobs \ {del[p].blobName}
              /\ del' = [del EXCEPT ![p] = [called EXCEPT !.pc = "entity"]]
           \/ \E error \in {ErrNotFound, ErrOther} :
                 /\ error = ErrNotFound => del[p].blobName \notin blobs
                 /\ IF isNotFoundError(error)
                    THEN del' = [del EXCEPT ![p] = [called EXCEPT !.pc = "entity"]]
                    ELSE Rethrow(p, called)
                 /\ UNCHANGED blobs
    /\ UNCHANGED <<now, env, lockoutVars, pureVars, jar, itemReq, vault, envVars>>

\* itemsTableClient.deleteEntity(PARTITION_KEY, id): deleted, or not found
\* (swallowed), or another error (rethrown).
deleteItemById_deleteEntity(p) ==
    /\ DeleteQuiet
    /\ del[p].pc = "entity"
    /\ LET called == [del[p] EXCEPT !.calls = @ + 1]
       IN  \/ /\ del[p].id \in vault
              /\ vault' = vault \ {del[p].id}
              /\ Return(p, called)
           \/ \E error \in {ErrNotFound, ErrOther} :
                 /\ error = ErrNotFound => del[p].id \notin vault
                 /\ IF isNotFoundError(error)
                    THEN Return(p, called)
                    ELSE Rethrow(p, called)
                 /\ UNCHANGED vault
    /\ UNCHANGED <<now, env, lockoutVars, pureVars, jar, itemReq, envVars, blobs>>

\* The response has been sent.
DELETE_close(p) ==
    /\ del[p].pc = "done"
    /\ del' = [del EXCEPT ![p] = IdleDelete]
    /\ UNCHANGED <<now, env, lockoutVars, pureVars, jar, itemReq, vault, envVars, blobs>>

\* The items table and the container hold some of the items and blobs (an
\* entity whose blob is gone and a blob whose entity is gone included);
\* storage has been initialized, or its one attempt has failed.
DeleteInit ==
    /\ now = 1000
    /\ env \in [authMaxAttempts : {1},
                authLockMinutes : {1},
                sessionSecret : {"secret1"},
                sessionTtlHours : {1}]
    /\ store = [exists |-> FALSE, entity |-> NoEntity]
    /\ initializationPromise \in {"fulfilled", "rejected"}
    /\ req = [p \in Procs |-> IdleReq]
    /\ history = NoHistory
    /\ PureIdle
    /\ jar = {}
    /\ itemReq = IdleItemReq
    /\ vault \in SUBSET StoredIds
    /\ EnvIdle
    /\ blobs \in SUBSET BlobNames
    /\ del = [p \in Procs |-> IdleDelete]

DeleteNext ==
    \E p \in Procs :
        \/ \E id \in StoredIds : DELETE(p, id)
        \/ deleteItemById_initialize(p)
        \/ deleteItemById_getEntity(p)
        \/ deleteItemById_deleteBlob(p)
        \/ deleteItemById_deleteEntity(p)
        \/ DELETE_close(p)

DeleteSpec == DeleteInit /\ [][DeleteNext]_vars

\* C30. deleteItemById removes the table entity only after its blob has been
\* deleted or found absent: the entity of an item with a blob leaves the
\* table only in the deleteEntity step of a call whose deleteBlob has
\* returned, the blob then being gone; a deleteBlob that fails with an error
\* other than not-found ends the call with that error (500), the entity left
\* in place; and a call for an id that has no entity makes no delete call and,
\* getEntity answering not-found, succeeds.
C30_BlobBeforeEntity ==
    [][ /\ \A id \in StoredIds :
              (id \in vault /\ id \notin vault') =>
                  /\ \E p \in Procs :
                        /\ del[p].pc = "entity" /\ del[p].id = id
                        /\ del'[p].pc = "done" /\ del'[p].status = 200
                        /\ blobNameOf(id) # "null" => del[p].calls = 1
                  /\ blobNameOf(id) \notin blobs
        /\ \A p \in Procs :
              /\ (del[p].pc = "blob" /\ del'[p].pc # "blob") =>
                    /\ vault' = vault
                    /\ IF del'[p].pc = "entity"
                       THEN del[p].blobName \notin blobs'
                       ELSE /\ del'[p].pc = "done" /\ del'[p].threw
                            /\ del'[p].status = 500
                            /\ blobs' = blobs
              /\ (del[p].pc = "get" /\ del'[p].pc # "get" /\ del[p].id \notin vault) =>
                    /\ del'[p].pc = "done"
                    /\ del'[p].calls = 0
                    /\ vault' = vault /\ blobs' = blobs
                    /\ ~del'[p].threw => del'[p].status = 200 ]_vars

\* Deleting the blob of file1 failed with an error other than not-found: the
\* call ended with 500 after that one delete call, entity and blob in place.
C30_Witness ==
    \E p \in Procs :
        /\ del[p].pc = "done" /\ del[p].threw /\ del[p].status = 500
        /\ del[p].id = "file1" /\ del[p].blobName = "blob1"
        /\ del[p].calls = 1
        /\ "file1" \in vault
        /\ "blob1" \in blobs

====
